---- MODULE Spec2Model ----
\* Model of the high-precision Southwest check-in actor (src/src/main.js, lines 1-554).
\* Times are integers in milliseconds.  `now` is the local clock (Date.now()),
\* `skew` is (reference time - local time), so the reference clock reads now + skew.
\* A redundant pair is modelled as two runs of the same program on the same time axis:
\* the PRIMARY run first, then the BACKUP run restarted from the same start instant.
EXTENDS Integers, Sequences, FiniteSets, TLC

VARIABLES
    instance,          \* "PRIMARY" | "BACKUP"  (instanceType, IS_BACKUP)
    primaryRun,        \* summary of the finished PRIMARY run, <<>> while it is running
    input,             \* the actor input: [kind, lead]
    skew,              \* reference clock minus local clock
    startSkew,         \* skew at the start instant
    baseRtt,           \* round-trip time of a healthy request
    faults,            \* environment deviations used so far (slow/failed requests, clock jumps, ...)
    now,               \* Date.now()
    clockWentBack,     \* history: the local clock was stepped backwards during this run
    pc,                \* position of the script
    checkinOpensAtMs,  \* <<ms>> or NaN
    localDriftMs,      \* const localDriftMs (line 134)
    lastSyncTime,      \* [time2, rtt, method]; time2 is the time in half milliseconds
    lastDriftCheck,
    lastNTPSync,
    lastHeartbeat,
    heartbeat,         \* last value stored under key 'heartbeat', <<>> if none
    rttSamples,        \* calibration samples
    delayMs,           \* <<delay>> once computed
    retryCount,
    result,            \* the result object
    dataset,           \* records pushed with Actor.pushData
    armedAt,           \* history: <<currentTime>> observed by the iteration that left the wait loop
    clicks,            \* history: sequence of [at, trueAt, kind] for every btn.click()
    reads,             \* history: rejection signal seen by each content read of the retry loop
    retryStart,        \* history: <<now>> when the retry loop was entered
    firstRejectAt,     \* history: <<now>> at the first read that showed the rejection signal
    retryEnd,          \* history: <<now>> when the retry loop was left
    finalRead          \* history: <<content>> of the final page read

vars == <<instance, primaryRun, input, skew, startSkew, baseRtt, faults, now, clockWentBack, pc,
          checkinOpensAtMs, localDriftMs, lastSyncTime, lastDriftCheck, lastNTPSync,
          lastHeartbeat, heartbeat, rttSamples, delayMs, retryCount, result, dataset,
          armedAt, clicks, reads, retryStart, firstRejectAt, retryEnd, finalRead>>

\* ---------------------------------------------------------------- bounds
MaxFaults == 1

Leads == {2000, 7050, 21900, 66950}
Profiles ==
    {[skew |-> 0, baseRtt |-> 0], [skew |-> 250, baseRtt |-> 0], [skew |-> 130, baseRtt |-> 40]}
SlowRtt == 1300
ClockSteps == {-700}
SleepJitter == 30

\* ---------------------------------------------------------------- program constants
SafetyMarginMs == 100
BackupOffsetMs == 1000
maxRetries == 5
CriticalWindowMs == 5000
NearWindowMs == 60000
CriticalPollMs == 100
NearPollMs == 1000
FarPollMs == 5000
DriftCheckMs == 15000
NtpResyncMs == 600000
HeartbeatMs == 120000
ProbeTimeoutMs == 3000
PreWarmThresholdMs == 300000
RetryWaitMs == 150
RetryPauseMs == 100
FinalWaitMs == 3000
FormFillWaitMs == 5000
RequestHandlerTimeoutMs == 300000

\* ---------------------------------------------------------------- JS values
NULL == <<>>
NaN == <<>>
Num(v) == <<v>>
Val(x) == x[1]
IsNum(x) == x # <<>>

UNKNOWN == <<"U", "N", "K", "N", "O", "W", "N">>
Digits == {"0", "1", "2", "3", "4", "5", "6", "7", "8", "9"}

ErrNoInput == "No input provided"
ErrMissing == "Missing required fields: confirmationNumber, firstName, lastName, checkinOpensAt"
ErrTooEarly == "Check-in not yet open (too early)"
ErrParse == "Could not parse boarding position from page"
ErrConst == "Assignment to constant variable."
ErrPage == "page error"
ErrFetch == "fetch failed"

\* ---------------------------------------------------------------- inputs
\* An input is abstracted to: whether there is one at all, which of the four required
\* fields hold a non-empty value (a missing and an empty field are both falsy), and
\* what checkinOpensAt denotes.
RequiredFields == {"confirmationNumber", "firstName", "lastName", "checkinOpensAt"}
Inputs ==
    {[kind |-> "ok", lead |-> l, fields |-> RequiredFields] : l \in Leads}
    \cup {[kind |-> "baddate", lead |-> 0, fields |-> RequiredFields]}
    \cup {[kind |-> "absent", lead |-> 0, fields |-> {}]}
    \cup {[kind |-> "missing", lead |-> 2000, fields |-> RequiredFields \ {f}] :
             f \in RequiredFields}

\* variant: checkinOpensAt is not among the checked fields
ValidationError_ThreeFields(in) ==
    IF in.kind = "absent" THEN ErrNoInput
    ELSE IF ~({"confirmationNumber", "firstName", "lastName"} \subseteq in.fields)
         THEN ErrMissing
         ELSE "null"
\* lines 28-36: the message of the error thrown by the validation, "null" if none
ValidationError(in) ==
    IF in.kind = "absent" THEN ErrNoInput
    ELSE IF ~(RequiredFields \subseteq in.fields) THEN ErrMissing
    ELSE "null"

\* new Date(checkinOpensAt).getTime(): the instant `lead` ms after the start on the
\* reference clock, or NaN for a string that is no date.
ParseDate(in, sk) ==
    IF in.kind = "baddate" \/ "checkinOpensAt" \notin in.fields
    THEN NaN ELSE Num(in.lead + sk)

isBackup == instance = "BACKUP"
\* variant: the backup delay halved
backupOffset_Half == IF instance = "BACKUP" THEN 500 ELSE 0
\* lines 40-43
backupOffset == IF isBackup THEN BackupOffsetMs ELSE 0

InitResult ==
    [success |-> FALSE, boardingPosition |-> NULL, actualSubmitTime |-> NULL,
     timingOffset |-> NULL, error |-> "null", screenshots |-> <<>>,
     telemetry |-> [ntpSyncSucceeded |-> FALSE, localDriftMs |-> NULL,
                    southwestRTT |-> NULL, syncMethod |-> "null", driftChecks |-> <<>>,
                    calibratedRTT |-> NULL, retryCount |-> NULL]]

RunInit ==
    /\ now = 0
    /\ clockWentBack = FALSE
    /\ pc = "start"
    /\ checkinOpensAtMs = NaN
    /\ localDriftMs = 0
    /\ lastSyncTime = [time2 |-> 0, rtt |-> NULL, method |-> "null"]
    /\ lastDriftCheck = 0
    /\ lastNTPSync = 0
    /\ lastHeartbeat = 0
    /\ heartbeat = NULL
    /\ rttSamples = <<>>
    /\ delayMs = NULL
    /\ retryCount = 0
    /\ result = InitResult
    /\ dataset = <<>>
    /\ armedAt = NULL
    /\ clicks = <<>>
    /\ reads = <<>>
    /\ retryStart = NULL
    /\ firstRejectAt = NULL
    /\ retryEnd = NULL
    /\ finalRead = NULL

Init ==
    /\ instance = "PRIMARY"
    /\ primaryRun = NULL
    /\ input \in Inputs
    /\ \E p \in Profiles :
         \* the endless wait of an unparseable date is explored under one profile
         /\ input.kind = "baddate" => p.baseRtt # 0
         /\ skew = p.skew /\ startSkew = p.skew /\ baseRtt = p.baseRtt
    /\ faults = 0
    /\ RunInit

\* ---------------------------------------------------------------- helpers
Max(a, b) == IF a >= b THEN a ELSE b

\* the catch block of the request handler (lines 520-531); `shot` tells whether the
\* error screenshot could be taken
\* variant: a catch block that takes the screenshot but drops the message
Caught_NoMessage(res, msg, shot) ==
    [res EXCEPT !.screenshots = IF shot THEN Append(@, "screenshot-error") ELSE @]

Caught(res, msg, shot) ==
    [res EXCEPT !.error = msg,
                !.screenshots = IF shot THEN Append(@, "screenshot-error") ELSE @]

\* variant: a failed query also overwrites the reported offset with 0
getNTPTime_ResetOnFailure(res, ok) ==
    IF ok
    THEN [result |-> [res EXCEPT !.telemetry.ntpSyncSucceeded = TRUE,
                                 !.telemetry.localDriftMs = Num(skew)],
          localDriftMs |-> skew]
    ELSE [result |-> [res EXCEPT !.telemetry.ntpSyncSucceeded = FALSE,
                                 !.telemetry.localDriftMs = Num(0)],
          localDriftMs |-> 0]

\* getNTPTime (lines 73-92): ok = the NTP query answered
getNTPTime(res, ok) ==
    IF ok
    THEN [result |-> [res EXCEPT !.telemetry.ntpSyncSucceeded = TRUE,
                                 !.telemetry.localDriftMs = Num(skew)],
          localDriftMs |-> skew]
    ELSE [result |-> [res EXCEPT !.telemetry.ntpSyncSucceeded = FALSE],
          localDriftMs |-> 0]

\* The Date response header: the server's clock, in whole seconds, at the middle of
\* the round trip that started at local time `start`.
DateHeaderMs(start, rtt) == ((2 * (start + skew) + rtt) \div 2000) * 1000

\* Outcomes of the HEAD request of getSouthwestTimeWithRTT.
ProbeOutcomes == {"ok", "slow", "nodate", "fail", "timeout"}
ProbeIsFault(o) == o # "ok"
ProbeElapsed(o) ==
    CASE o = "ok" -> baseRtt
      [] o = "slow" -> SlowRtt
      [] o = "nodate" -> baseRtt
      [] o = "fail" -> baseRtt
      [] o = "timeout" -> ProbeTimeoutMs

\* variant: the fallback sample is the raw local clock
getSouthwestTimeWithRTT_RawFallback(start, drift, o) ==
    LET rtt == ProbeElapsed(o) IN
    IF o \in {"ok", "slow"}
    THEN [time2 |-> 2 * DateHeaderMs(start, rtt) + rtt + 2 * drift,
          rtt |-> Num(rtt), method |-> "southwest+ntp"]
    ELSE [time2 |-> 2 * (start + rtt), rtt |-> NULL, method |-> "ntp-only"]

\* getSouthwestTimeWithRTT(localDriftMs) (lines 95-131) called at local time `start`
getSouthwestTimeWithRTT(start, drift, o) ==
    LET rtt == ProbeElapsed(o) IN
    IF o \in {"ok", "slow"}
    THEN [time2 |-> 2 * DateHeaderMs(start, rtt) + rtt + 2 * drift,
          rtt |-> Num(rtt), method |-> "southwest+ntp"]
    ELSE [time2 |-> 2 * (start + rtt + drift), rtt |-> NULL, method |-> "ntp-only"]

\* line 116: southwestRTT is recorded only on the success path
RecordRTT(res, sync) ==
    IF IsNum(sync.rtt) THEN [res EXCEPT !.telemetry.southwestRTT = sync.rtt] ELSE res

UseFault(isFault) ==
    IF isFault THEN faults < MaxFaults /\ faults' = faults + 1 ELSE faults' = faults

\* ---------------------------------------------------------------- start-up
\* lines 25-38 and the top-level catch (lines 544-552)
Start ==
    /\ pc = "start"
    /\ IF ValidationError(input) # "null"
       THEN /\ dataset' = Append(dataset,
                   [success |-> FALSE, error |-> ValidationError(input),
                    timestamp |-> now])
            /\ pc' = "fatal"
            /\ UNCHANGED checkinOpensAtMs
       ELSE /\ checkinOpensAtMs' = ParseDate(input, skew)
            /\ pc' = "ntp"
            /\ UNCHANGED dataset
    /\ UNCHANGED <<instance, primaryRun, input, skew, startSkew, baseRtt, faults, now, clockWentBack,
                   localDriftMs, lastSyncTime, lastDriftCheck, lastNTPSync, lastHeartbeat,
                   heartbeat, rttSamples, delayMs, retryCount, result, armedAt, clicks,
                   reads, retryStart, firstRejectAt, retryEnd, finalRead>>

\* line 134: const { ntpTime, localDriftMs } = await getNTPTime()
NtpInit ==
    /\ pc = "ntp"
    /\ \E ok \in BOOLEAN :
         /\ UseFault(~ok)
         /\ LET r == getNTPTime(result, ok) IN
              /\ result' = r.result
              /\ localDriftMs' = r.localDriftMs
         /\ now' = now + baseRtt
    /\ pc' = "phase1"
    /\ UNCHANGED <<instance, primaryRun, input, skew, startSkew, baseRtt, clockWentBack,
                   checkinOpensAtMs, lastSyncTime, lastDriftCheck, lastNTPSync,
                   lastHeartbeat, heartbeat, rttSamples, delayMs, retryCount, dataset,
                   armedAt, clicks, reads, retryStart, firstRejectAt, retryEnd, finalRead>>

\* PHASE 1 (lines 174-228): load the page, fill the form; the fixed waits add up to
\* 2000 + 1000 + 500 + 500 + 1000 ms.  A page failure throws into the catch block.
Phase1 ==
    /\ pc = "phase1"
    /\ \/ /\ UseFault(FALSE)
          /\ now' = now + baseRtt + FormFillWaitMs
          /\ result' = [result EXCEPT !.screenshots =
                           @ \o <<"screenshot-initial", "screenshot-form-filled">>]
          /\ pc' = "prewarm"
       \/ /\ UseFault(TRUE)
          /\ now' = now + baseRtt
          /\ \E shot \in BOOLEAN : result' = Caught(result, ErrPage, shot)
          /\ pc' = "push"
    /\ UNCHANGED <<instance, primaryRun, input, skew, startSkew, baseRtt, clockWentBack,
                   checkinOpensAtMs, localDriftMs, lastSyncTime, lastDriftCheck,
                   lastNTPSync, lastHeartbeat, heartbeat, rttSamples, delayMs, retryCount,
                   dataset, armedAt, clicks, reads, retryStart, firstRejectAt, retryEnd,
                   finalRead>>

\* lines 233-243: pre-warm request when check-in is more than 5 minutes away by the
\* local clock; the request has no timeout of its own
PreWarm ==
    /\ pc = "prewarm"
    /\ IF IsNum(checkinOpensAtMs) /\ Val(checkinOpensAtMs) - now > PreWarmThresholdMs
       THEN \/ /\ UseFault(FALSE) /\ now' = now + baseRtt /\ pc' = "sync"
            \/ /\ UseFault(TRUE) /\ now' = now + baseRtt /\ pc' = "sync"
            \/ /\ UseFault(TRUE) /\ now' = now /\ pc' = "hung"
       ELSE /\ UseFault(FALSE) /\ now' = now /\ pc' = "sync"
    /\ UNCHANGED <<instance, primaryRun, input, skew, startSkew, baseRtt, clockWentBack,
                   checkinOpensAtMs, localDriftMs, lastSyncTime, lastDriftCheck,
                   lastNTPSync, lastHeartbeat, heartbeat, rttSamples, delayMs, retryCount,
                   result, dataset, armedAt, clicks, reads, retryStart, firstRejectAt,
                   retryEnd, finalRead>>

\* lines 245-254: first Southwest sync and the three timers
InitialSync ==
    /\ pc = "sync"
    /\ \E o \in ProbeOutcomes :
         /\ UseFault(ProbeIsFault(o))
         /\ LET s == getSouthwestTimeWithRTT(now, localDriftMs, o) IN
              /\ lastSyncTime' = s
              /\ result' = [RecordRTT(result, s) EXCEPT !.telemetry.syncMethod = s.method]
         /\ now' = now + ProbeElapsed(o)
    /\ lastDriftCheck' = now'
    /\ lastNTPSync' = now'
    /\ lastHeartbeat' = now'
    /\ pc' = "loop"
    /\ UNCHANGED <<instance, primaryRun, input, skew, startSkew, baseRtt, clockWentBack,
                   checkinOpensAtMs, localDriftMs, heartbeat, rttSamples, delayMs,
                   retryCount, dataset, armedAt, clicks, reads, retryStart, firstRejectAt,
                   retryEnd, finalRead>>

\* ---------------------------------------------------------------- PHASE 2: wait loop
\* variant: the corrected time is extrapolated from the last Southwest sample
currentTime_FromLastSync == (lastSyncTime.time2 \div 2) + (now - lastDriftCheck)
\* lines 302-307
currentTime == now + localDriftMs
targetSubmitTime == Num(Val(checkinOpensAtMs) + SafetyMarginMs + backupOffset)
msUntilSubmit ==
    IF IsNum(checkinOpensAtMs) THEN Num(Val(targetSubmitTime) - currentTime) ELSE NaN

\* variant: the loop is left on msUntilCheckin (line 303) instead of msUntilSubmit
TargetReached_AtOpening(ms) == IsNum(ms) /\ Val(ms) - SafetyMarginMs - backupOffset <= 0

\* line 309: the comparison is false for NaN
TargetReached(ms) == IsNum(ms) /\ Val(ms) <= 0

\* variant: the 100 ms bucket is missing
PollInterval_Coarse(ms) ==
    IF IsNum(ms) /\ Val(ms) <= NearWindowMs THEN NearPollMs ELSE FarPollMs

\* lines 314-329: the sleep before the next poll
PollInterval(ms) ==
    IF IsNum(ms) /\ Val(ms) <= CriticalWindowMs THEN CriticalPollMs
    ELSE IF IsNum(ms) /\ Val(ms) <= NearWindowMs THEN NearPollMs
    ELSE FarPollMs

\* variant: the drift check waits for more than 15 s
DriftCheckDue_Strict == now - lastDriftCheck > DriftCheckMs
\* lines 258-259, 273-274, 293-294
HeartbeatDue == now - lastHeartbeat >= HeartbeatMs
DriftCheckDue == now - lastDriftCheck >= DriftCheckMs
NtpResyncDue == now - lastNTPSync >= NtpResyncMs

\* position inside one iteration of while (true): a block that is not due is skipped
AtHeartbeat == pc = "loop"
AtDriftCheck == pc = "loop_drift" \/ (AtHeartbeat /\ ~HeartbeatDue)
AtNtpResync == pc = "loop_ntp" \/ (AtDriftCheck /\ ~DriftCheckDue)
AtPoll == AtNtpResync /\ ~NtpResyncDue

\* lines 257-270
Heartbeat ==
    /\ AtHeartbeat /\ HeartbeatDue
    /\ heartbeat' = Num([timestamp |-> now,
                         msRemaining |-> IF IsNum(checkinOpensAtMs)
                                         THEN Num(Val(checkinOpensAtMs) + backupOffset
                                                  - (now + localDriftMs))
                                         ELSE NaN,
                         instanceType |-> instance,
                         driftMs |-> localDriftMs])
    /\ lastHeartbeat' = now
    /\ pc' = "loop_drift"
    /\ UNCHANGED <<instance, primaryRun, input, skew, startSkew, baseRtt, faults, now, clockWentBack,
                   checkinOpensAtMs, localDriftMs, lastSyncTime, lastDriftCheck,
                   lastNTPSync, rttSamples, delayMs, retryCount, result, dataset, armedAt,
                   clicks, reads, retryStart, firstRejectAt, retryEnd, finalRead>>

\* variant: only the latest record is kept
RecordDrift_KeepLatest(res, rec) == [res EXCEPT !.telemetry.driftChecks = <<rec>>]
\* lines 278-282
RecordDrift(res, rec) == [res EXCEPT !.telemetry.driftChecks = Append(@, rec)]

\* lines 272-290; drift2 is the recorded drift in half milliseconds
DriftCheck ==
    /\ AtDriftCheck /\ DriftCheckDue
    /\ \E o \in ProbeOutcomes :
         /\ UseFault(ProbeIsFault(o))
         /\ LET timeSinceLastCheck == now - lastDriftCheck
                newSync == getSouthwestTimeWithRTT(now, localDriftMs, o)
                drift2 == newSync.time2 - lastSyncTime.time2 - 2 * timeSinceLastCheck
            IN /\ result' = RecordDrift(RecordRTT(result, newSync),
                                        [timestamp |-> now + ProbeElapsed(o),
                                         drift2 |-> drift2,
                                         rtt |-> newSync.rtt])
               /\ lastSyncTime' = newSync
         /\ now' = now + ProbeElapsed(o)
    /\ lastDriftCheck' = now'
    /\ pc' = "loop_ntp"
    /\ UNCHANGED <<instance, primaryRun, input, skew, startSkew, baseRtt, clockWentBack,
                   checkinOpensAtMs, localDriftMs, lastNTPSync, lastHeartbeat, heartbeat,
                   rttSamples, delayMs, retryCount, dataset, armedAt, clicks, reads,
                   retryStart, firstRejectAt, retryEnd, finalRead>>

\* lines 292-300: getNTPTime() runs, then the assignment to the const binding
\* localDriftMs (declared at line 134) throws a TypeError into the catch block
NtpResync ==
    /\ AtNtpResync /\ NtpResyncDue
    /\ \E ok \in BOOLEAN, shot \in BOOLEAN :
         /\ UseFault(~ok)
         /\ result' = Caught(getNTPTime(result, ok).result, ErrConst, shot)
    /\ now' = now + baseRtt
    /\ pc' = "push"
    /\ UNCHANGED <<instance, primaryRun, input, skew, startSkew, baseRtt, clockWentBack,
                   checkinOpensAtMs, localDriftMs, lastSyncTime, lastDriftCheck,
                   lastNTPSync, lastHeartbeat, heartbeat, rttSamples, delayMs, retryCount,
                   dataset, armedAt, clicks, reads, retryStart, firstRejectAt, retryEnd,
                   finalRead>>

\* lines 302-330: leave the loop when the target submit time is reached, else sleep
Poll ==
    /\ AtPoll
    /\ IF TargetReached(msUntilSubmit)
       THEN /\ armedAt' = Num(currentTime)
            /\ pc' = "calibrate"
            /\ UNCHANGED <<now, faults>>
       ELSE /\ \E late \in {0, SleepJitter} :
                 /\ UseFault(late # 0)
                 /\ now' = now + PollInterval(msUntilSubmit) + late
            /\ pc' = "loop"
            /\ UNCHANGED armedAt
    /\ UNCHANGED <<instance, primaryRun, input, skew, startSkew, baseRtt, clockWentBack,
                   checkinOpensAtMs, localDriftMs, lastSyncTime, lastDriftCheck,
                   lastNTPSync, lastHeartbeat, heartbeat, rttSamples, delayMs, retryCount,
                   result, dataset, clicks, reads, retryStart, firstRejectAt, retryEnd,
                   finalRead>>

\* The operating system steps the local clock while the script is waiting or submitting.
ClockStep ==
    /\ pc \in {"loop", "loop_drift", "loop_ntp", "calibrate", "schedule", "evaluate"}
    /\ UseFault(TRUE)
    /\ \E d \in ClockSteps :
         /\ now' = now + d
         /\ skew' = skew - d
         /\ clockWentBack' = (clockWentBack \/ d < 0)
    /\ UNCHANGED <<instance, primaryRun, input, startSkew, baseRtt, pc, checkinOpensAtMs,
                   localDriftMs, lastSyncTime, lastDriftCheck, lastNTPSync, lastHeartbeat,
                   heartbeat, rttSamples, delayMs, retryCount, result, dataset, armedAt,
                   clicks, reads, retryStart, firstRejectAt, retryEnd, finalRead>>

\* ---------------------------------------------------------------- PHASE 3: submit
\* variant: the mean instead of the median
Median_Mean(samples) == (samples[1] + samples[2] + samples[3]) \div 3
\* lines 352-353: sort, then the element at index floor(length / 2)
Median(samples) ==
    LET sortedRTT == SortSeq(samples, LAMBDA a, b : a < b)
    IN sortedRTT[(Len(sortedRTT) \div 2) + 1]

\* line 360
adaptiveOffset(medianRTT) == medianRTT \div 2

\* variant: the calibrated value also overwrites the sync probe's round-trip time
RecordCalibration_AsSync(res, median) ==
    [res EXCEPT !.telemetry.calibratedRTT = Num(median),
                !.telemetry.southwestRTT = Num(median)]
\* line 357
RecordCalibration(res, median) == [res EXCEPT !.telemetry.calibratedRTT = Num(median)]

\* lines 343-357: three HEAD requests in a row, none of them inside a try block or
\* bounded by a timeout.  A slow answer is a sample like any other; a request that
\* fails (the failAt-th, after failAt - 1 samples were pushed) rejects the await and the
\* error leaves the handler body; a request that is never answered never returns.
\* slowAt = 0: all healthy; slowAt = i: the i-th round trip is slow.
Calibrate ==
    /\ pc = "calibrate"
    /\ \/ \E slowAt \in 0..3 :
            LET samples == [i \in 1..3 |-> IF i = slowAt THEN SlowRtt ELSE baseRtt] IN
            /\ UseFault(slowAt # 0)
            /\ rttSamples' = SortSeq(samples, LAMBDA a, b : a < b)
            /\ result' = RecordCalibration(result, Median(samples))
            /\ now' = now + samples[1] + samples[2] + samples[3]
            /\ pc' = "schedule"
       \/ \E failAt \in 1..3 :
            /\ UseFault(TRUE)
            /\ \E shot \in BOOLEAN : result' = Caught(result, ErrFetch, shot)
            /\ rttSamples' = [i \in 1..(failAt - 1) |-> baseRtt]
            /\ now' = now + failAt * baseRtt
            /\ pc' = "push"
       \/ /\ UseFault(TRUE)
          /\ pc' = "hung"
          /\ UNCHANGED <<now, result, rttSamples>>
    /\ UNCHANGED <<instance, primaryRun, input, skew, startSkew, baseRtt, clockWentBack,
                   checkinOpensAtMs, localDriftMs, lastSyncTime, lastDriftCheck,
                   lastNTPSync, lastHeartbeat, heartbeat, delayMs, retryCount, dataset,
                   armedAt, clicks, reads, retryStart, firstRejectAt, retryEnd, finalRead>>

\* lines 373-391: delay computed in the Node context
ScheduleClick ==
    /\ pc = "schedule"
    /\ delayMs' = Num(Max(0, Val(targetSubmitTime) - currentTime))
    /\ pc' = "evaluate"
    /\ UNCHANGED <<instance, primaryRun, input, skew, startSkew, baseRtt, faults, now, clockWentBack,
                   checkinOpensAtMs, localDriftMs, lastSyncTime, lastDriftCheck,
                   lastNTPSync, lastHeartbeat, heartbeat, rttSamples, retryCount, result,
                   dataset, armedAt, clicks, reads, retryStart, firstRejectAt, retryEnd,
                   finalRead>>

Click(at, kind) == [at |-> at, trueAt |-> at + skew, kind |-> kind]

\* variant: the offset is taken from the target submit time
RecordSubmit_FromTarget(res, at) ==
    [res EXCEPT !.actualSubmitTime = Num(at + localDriftMs),
                !.timingOffset = Num(at + localDriftMs - Val(targetSubmitTime))]

\* variant: the offset from the opening instant is not recorded
RecordSubmit_TimeOnly(res, at) ==
    [res EXCEPT !.actualSubmitTime = Num(at + localDriftMs)]

\* lines 417-419
RecordSubmit(res, at) ==
    [res EXCEPT !.actualSubmitTime = Num(at + localDriftMs),
                !.timingOffset = Num(at + localDriftMs - Val(checkinOpensAtMs))]

\* lines 393-419: the in-browser click (immediately or after setTimeout(delay)), then
\* the submit time is taken when page.evaluate returns
EvaluateClick ==
    /\ pc = "evaluate"
    /\ \/ \E late \in {0, SleepJitter} :
            LET clickAt == now + Val(delayMs) IN
            /\ UseFault(late # 0)
            /\ clicks' = Append(clicks, Click(clickAt, "initial"))
            /\ now' = clickAt + late
            /\ result' = RecordSubmit(result, now')
            /\ retryStart' = Num(now')
            /\ pc' = "retry"
       \/ /\ UseFault(TRUE)          \* button not found: resolve({ error })
          /\ result' = RecordSubmit(result, now)
          /\ retryStart' = Num(now)
          /\ pc' = "retry"
          /\ UNCHANGED <<now, clicks>>
       \/ /\ UseFault(TRUE)          \* page.evaluate rejects
          /\ \E shot \in BOOLEAN : result' = Caught(result, ErrPage, shot)
          /\ pc' = "push"
          /\ UNCHANGED <<now, clicks, retryStart>>
    /\ UNCHANGED <<instance, primaryRun, input, skew, startSkew, baseRtt, clockWentBack,
                   checkinOpensAtMs, localDriftMs, lastSyncTime, lastDriftCheck,
                   lastNTPSync, lastHeartbeat, heartbeat, rttSamples, delayMs, retryCount,
                   dataset, armedAt, reads, firstRejectAt, retryEnd, finalRead>>

\* ---------------------------------------------------------------- PHASE 4: micro-retry
\* variant: one iteration too many
RetryAgain_OffByOne(rc) == rc <= maxRetries

\* line 431
RetryAgain(rc) == rc < maxRetries

\* variant: the button is clicked whatever the page shows
ClicksAgain_Always(rejected, btn) == btn
\* lines 436-444: the retry click is made only on the rejection branch, if the button
\* is found
ClicksAgain(rejected, btn) == rejected /\ btn

\* lines 431-453: one iteration of the loop; `rejected` is what page.content() shows,
\* `btn` whether the retry click finds the button.  Leaving the loop stores retryCount.
RetryIteration ==
    /\ pc = "retry"
    /\ RetryAgain(retryCount)
    /\ \/ \E rejected \in BOOLEAN, btn \in BOOLEAN :
            LET readAt == now + RetryWaitMs
                rc == IF rejected THEN retryCount + 1 ELSE retryCount
                again == rejected /\ RetryAgain(rc)
            IN /\ (~rejected => btn)
               /\ UseFault(~btn)
               /\ reads' = Append(reads, rejected)
               /\ firstRejectAt' = IF rejected /\ firstRejectAt = NULL
                                   THEN Num(readAt) ELSE firstRejectAt
               /\ retryCount' = rc
               /\ clicks' = IF ClicksAgain(rejected, btn)
                            THEN Append(clicks, Click(readAt, "retry")) ELSE clicks
               /\ now' = IF rejected THEN readAt + RetryPauseMs ELSE readAt
               /\ pc' = IF again THEN "retry" ELSE "verify"
               /\ retryEnd' = IF again THEN retryEnd ELSE Num(now')
               /\ result' = IF again THEN result
                            ELSE [result EXCEPT !.telemetry.retryCount = Num(rc)]
       \/ /\ UseFault(TRUE)          \* page.content() rejects
          /\ \E shot \in BOOLEAN : result' = Caught(result, ErrPage, shot)
          /\ now' = now + RetryWaitMs
          /\ pc' = "push"
          /\ UNCHANGED <<reads, firstRejectAt, retryCount, clicks, retryEnd>>
    /\ UNCHANGED <<instance, primaryRun, input, skew, startSkew, baseRtt, clockWentBack,
                   checkinOpensAtMs, localDriftMs, lastSyncTime, lastDriftCheck,
                   lastNTPSync, lastHeartbeat, heartbeat, rttSamples, delayMs, dataset,
                   armedAt, retryStart, finalRead>>

\* ---------------------------------------------------------------- PHASE 5: result
\* A page is abstracted to what the code looks at:
\*   rejected  the text contains 'too early' or 'Come back'
\*   label     "boarding position" | "position" | "group" | "none": the labelled value
\*   labelled  the token after the label (for "group": the letter), digits: the
\*             number after 'position' of a group label
\*   others    the other word-bounded tokens [A-C]\d{1,2} of the page, in order
A12 == <<"A", "1", "2">>
B3 == <<"B", "3">>
C45 == <<"C", "4", "5">>
a12 == <<"a", "1", "2">>
Page(rej, label, labelled, digits, others) ==
    [rejected |-> rej, label |-> label, labelled |-> labelled, digits |-> digits,
     others |-> others]
PageContents ==
    {Page(FALSE, "none", <<>>, <<>>, <<>>),
     Page(TRUE, "none", <<>>, <<>>, <<>>),
     Page(FALSE, "boarding position", A12, <<>>, <<>>),
     Page(FALSE, "group", <<"A">>, <<"1", "2">>, <<>>),
     Page(FALSE, "none", <<>>, <<>>, <<B3>>),
     Page(TRUE, "none", <<>>, <<>>, <<B3, C45>>),
     Page(FALSE, "none", <<>>, <<>>, <<B3, C45, A12>>),
     Page(FALSE, "position", a12, <<>>, <<>>)}

\* line 485: /^[A-C]\d{1,2}$/
ShapeOK(bp) ==
    /\ Len(bp) \in {2, 3}
    /\ bp[1] \in {"A", "B", "C"}
    /\ \A i \in 2..Len(bp) : bp[i] \in Digits

\* lines 469-474: the array String.match returns for pattern k (<<>> for null);
\* element 1 is match[0].  Patterns 1-3 are case-insensitive, pattern 4 is global
\* and case-sensitive, so it returns every upper-case token and no capture group.
WholeMatch == <<"*">>
GlobalTokens(c) ==
    (IF c.label \in {"boarding position", "position"} /\ ShapeOK(c.labelled)
     THEN <<c.labelled>> ELSE <<>>) \o c.others
MatchOf(k, c) ==
    CASE k = 1 -> IF c.label = "boarding position" THEN <<WholeMatch, c.labelled>> ELSE <<>>
      [] k = 2 -> IF c.label \in {"boarding position", "position"}
                  THEN <<WholeMatch, c.labelled>> ELSE <<>>
      [] k = 3 -> IF c.label = "group" THEN <<WholeMatch, c.labelled, c.digits>> ELSE <<>>
      [] k = 4 -> GlobalTokens(c)

\* lines 480-484: match[1] + match[2] when the array has at least 3 elements, else
\* match[1] (undefined, modelled as <<>>, when the array has one element)
Candidate(m) ==
    IF Len(m) >= 3 THEN m[2] \o m[3] ELSE IF Len(m) >= 2 THEN m[2] ELSE <<>>

\* lines 476-490: the loop over the patterns from pattern k on
RECURSIVE ExtractFrom(_, _, _)
ExtractFrom(k, boardingPosition, c) ==
    IF k > 4 THEN boardingPosition
    ELSE LET m == MatchOf(k, c) IN
         IF m = <<>> THEN ExtractFrom(k + 1, boardingPosition, c)
         ELSE LET bp == Candidate(m) IN
              IF bp # <<>> /\ ShapeOK(bp) THEN bp ELSE ExtractFrom(k + 1, bp, c)

ExtractBoardingPosition(c) == ExtractFrom(1, <<>>, c)

\* variant: an unparsed page is a failure
Classify_Strict(res, c, boardingPosition) ==
    IF boardingPosition # <<>>
    THEN [res EXCEPT !.success = TRUE, !.boardingPosition = boardingPosition]
    ELSE [res EXCEPT !.success = FALSE, !.error = ErrParse]

\* variant: the rejection signal is not looked at (as in the basic script)
Classify_NoRejectionCheck(res, c, boardingPosition) ==
    IF boardingPosition # <<>>
    THEN [res EXCEPT !.success = TRUE, !.boardingPosition = boardingPosition]
    ELSE [res EXCEPT !.success = TRUE, !.boardingPosition = UNKNOWN, !.error = ErrParse]

\* variant: the rejection signal is looked at before the boarding position
Classify_RejectionFirst(res, c, boardingPosition) ==
    IF c.rejected
    THEN [res EXCEPT !.success = FALSE, !.error = ErrTooEarly]
    ELSE IF boardingPosition # <<>>
         THEN [res EXCEPT !.success = TRUE, !.boardingPosition = boardingPosition]
         ELSE [res EXCEPT !.success = TRUE, !.boardingPosition = UNKNOWN,
                          !.error = ErrParse]

\* variant: an unparsed page leaves boardingPosition null
Classify_NullPosition(res, c, boardingPosition) ==
    IF boardingPosition # <<>>
    THEN [res EXCEPT !.success = TRUE, !.boardingPosition = boardingPosition]
    ELSE IF c.rejected
         THEN [res EXCEPT !.success = FALSE, !.error = ErrTooEarly]
         ELSE [res EXCEPT !.success = TRUE, !.error = ErrParse]

\* the basic script (src/unnamed/part_001, lines 230-239): no rejection check
basicClassify(res, boardingPosition) ==
    IF boardingPosition # <<>>
    THEN [res EXCEPT !.success = TRUE, !.boardingPosition = boardingPosition]
    ELSE [res EXCEPT !.success = TRUE, !.boardingPosition = UNKNOWN, !.error = ErrParse]

\* lines 492-507
Classify(res, c, boardingPosition) ==
    IF boardingPosition # <<>>
    THEN [res EXCEPT !.success = TRUE, !.boardingPosition = boardingPosition]
    ELSE IF c.rejected
         THEN [res EXCEPT !.success = FALSE, !.error = ErrTooEarly]
         ELSE [res EXCEPT !.success = TRUE, !.boardingPosition = UNKNOWN,
                          !.error = ErrParse]

\* lines 456-507: wait for the result page, screenshot, read it, classify
Verify ==
    /\ pc = "verify"
    /\ now' = now + FinalWaitMs
    /\ \/ \E c \in PageContents :
            /\ UseFault(FALSE)
            /\ finalRead' = Num(c)
            /\ result' = Classify([result EXCEPT !.screenshots =
                                       Append(@, "screenshot-result")],
                                  c, ExtractBoardingPosition(c))
       \/ /\ UseFault(TRUE)          \* screenshot or page.content() rejects
          /\ \E shot \in BOOLEAN : result' = Caught(result, ErrPage, shot)
          /\ UNCHANGED finalRead
    /\ pc' = "push"
    /\ UNCHANGED <<instance, primaryRun, input, skew, startSkew, baseRtt, clockWentBack,
                   checkinOpensAtMs, localDriftMs, lastSyncTime, lastDriftCheck,
                   lastNTPSync, lastHeartbeat, heartbeat, rttSamples, delayMs, retryCount,
                   dataset, armedAt, clicks, reads, retryStart, firstRejectAt, retryEnd>>

\* lines 537-554: the crawler has returned; push the result and exit
Push ==
    /\ pc = "push"
    /\ dataset' = Append(dataset, result)
    /\ pc' = "done"
    /\ UNCHANGED <<instance, primaryRun, input, skew, startSkew, baseRtt, faults, now, clockWentBack,
                   checkinOpensAtMs, localDriftMs, lastSyncTime, lastDriftCheck,
                   lastNTPSync, lastHeartbeat, heartbeat, rttSamples, delayMs, retryCount,
                   result, armedAt, clicks, reads, retryStart, firstRejectAt, retryEnd,
                   finalRead>>

\* ---------------------------------------------------------------- redundant pair
\* lines 40-43: the second instance of a redundant pair runs the same script with
\* IS_BACKUP = 'true', on the same input, from the same start instant.
Terminated == pc \in {"done", "fatal"}
TrueClickTime == IF clicks = <<>> THEN NULL ELSE Num(clicks[1].trueAt)
StartBackup ==
    /\ Terminated
    /\ instance = "PRIMARY"
    /\ instance' = "BACKUP"
    /\ primaryRun' = Num([timingOffset |-> result.timingOffset,
                          clickAt |-> TrueClickTime])
    /\ skew' = startSkew
    /\ now' = 0
    /\ clockWentBack' = FALSE
    /\ pc' = "start"
    /\ checkinOpensAtMs' = NaN
    /\ localDriftMs' = 0
    /\ lastSyncTime' = [time2 |-> 0, rtt |-> NULL, method |-> "null"]
    /\ lastDriftCheck' = 0
    /\ lastNTPSync' = 0
    /\ lastHeartbeat' = 0
    /\ heartbeat' = NULL
    /\ rttSamples' = <<>>
    /\ delayMs' = NULL
    /\ retryCount' = 0
    /\ result' = InitResult
    /\ dataset' = <<>>
    /\ armedAt' = NULL
    /\ clicks' = <<>>
    /\ reads' = <<>>
    /\ retryStart' = NULL
    /\ firstRejectAt' = NULL
    /\ retryEnd' = NULL
    /\ finalRead' = NULL
    /\ UNCHANGED <<input, startSkew, baseRtt, faults>>

Next ==
    \/ Start
    \/ NtpInit
    \/ Phase1
    \/ PreWarm
    \/ InitialSync
    \/ Heartbeat
    \/ DriftCheck
    \/ NtpResync
    \/ Poll
    \/ ClockStep
    \/ Calibrate
    \/ ScheduleClick
    \/ EvaluateClick
    \/ RetryIteration
    \/ Verify
    \/ Push
    \/ StartBackup

Spec == Init /\ [][Next]_vars

\* A pair whose opening instant lies more than ten minutes after the start (so that the
\* 600 s NTP re-sync of line 294 falls inside the wait), next to a short wait.
LongLeads == {7050, 610000}
InitLong ==
    /\ instance = "PRIMARY"
    /\ primaryRun = NULL
    /\ input \in {[kind |-> "ok", lead |-> l, fields |-> RequiredFields] : l \in LongLeads}
    /\ skew = 130 /\ startSkew = 130 /\ baseRtt = 40
    /\ faults = 0
    /\ RunInit
SpecLong == InitLong /\ [][Next]_vars

\* The median computation of lines 343-357 on its own: three answered calibration
\* requests with round-trip times drawn from RttValues, then sort, median, record.
RttValues == {20, 40, 45, 200, 400}
InitMedian ==
    /\ instance = "PRIMARY"
    /\ primaryRun = NULL
    /\ input = [kind |-> "ok", lead |-> 2000, fields |-> RequiredFields]
    /\ skew = 0 /\ startSkew = 0 /\ baseRtt = 0
    /\ faults = 0
    /\ now = 0
    /\ clockWentBack = FALSE
    /\ pc = "median"
    /\ checkinOpensAtMs = Num(2000)
    /\ localDriftMs = 0
    /\ lastSyncTime = [time2 |-> 0, rtt |-> NULL, method |-> "null"]
    /\ lastDriftCheck = 0
    /\ lastNTPSync = 0
    /\ lastHeartbeat = 0
    /\ heartbeat = NULL
    /\ rttSamples \in [1..3 -> RttValues]
    /\ delayMs = NULL
    /\ retryCount = 0
    /\ result = InitResult
    /\ dataset = <<>>
    /\ armedAt = NULL
    /\ clicks = <<>>
    /\ reads = <<>>
    /\ retryStart = NULL
    /\ firstRejectAt = NULL
    /\ retryEnd = NULL
    /\ finalRead = NULL
ApplyMedian ==
    /\ pc = "median"
    /\ rttSamples' = SortSeq(rttSamples, LAMBDA a, b : a < b)
    /\ result' = RecordCalibration(result, Median(rttSamples))
    /\ pc' = "median_done"
    /\ UNCHANGED <<instance, primaryRun, input, skew, startSkew, baseRtt, faults, now,
                   clockWentBack, checkinOpensAtMs, localDriftMs, lastSyncTime,
                   lastDriftCheck, lastNTPSync, lastHeartbeat, heartbeat, delayMs,
                   retryCount, dataset, armedAt, clicks, reads, retryStart, firstRejectAt,
                   retryEnd, finalRead>>
NextMedian == ApplyMedian
SpecMedian == InitMedian /\ [][NextMedian]_vars

\* ---------------------------------------------------------------------------
\* The basic (non-scheduled) scripts: src/unnamed/part_001 (two pages: the
\* form, then the final check-in button) and src/src/main.js lines 556-933
\* (one page; lines 935-1360 repeat it with more ways of finding a field).
\* They read the clock only for the record's timestamp, so time stands still.
BasicVariants == {"part_001", "main_556"}
BasicFields == <<"confirmation number", "first name", "last name">>

\* part_001 lines 47-54, main.js lines 603-610
BasicInitResult ==
    [success |-> FALSE, boardingPosition |-> NULL,
     confirmationNumber |-> "confirmationNumber", timestamp |-> 0, error |-> "null",
     screenshots |-> <<>>]

\* part_001 lines 110, 119, 128; main.js lines 702, 735, 768
ErrFieldMissing(v, f) ==
    IF v = "part_001" THEN "Could not find " \o f \o " input field"
    ELSE "Could not find or fill " \o f \o " input field"
\* part_001 line 143
ErrRetrieveMissing == "Could not find retrieve reservation button"
\* part_001 line 177, main.js line 805
ErrCheckInMissing(v) ==
    IF v = "part_001" THEN "Could not find final check-in button"
    ELSE "Could not find or click check-in button"

InitBasic ==
    /\ instance = "PRIMARY"
    /\ primaryRun = NULL
    /\ \E v \in BasicVariants :
         input = [kind |-> v, lead |-> 0,
                  fields |-> {"confirmationNumber", "firstName", "lastName"}]
    /\ skew = 0 /\ startSkew = 0 /\ baseRtt = 0
    /\ faults = 0
    /\ now = 0
    /\ clockWentBack = FALSE
    /\ pc = "basic_goto"
    /\ checkinOpensAtMs = NaN
    /\ localDriftMs = 0
    /\ lastSyncTime = [time2 |-> 0, rtt |-> NULL, method |-> "null"]
    /\ lastDriftCheck = 0
    /\ lastNTPSync = 0
    /\ lastHeartbeat = 0
    /\ heartbeat = NULL
    /\ rttSamples = <<>>
    /\ delayMs = NULL
    /\ retryCount = 0
    /\ result = BasicInitResult
    /\ dataset = <<>>
    /\ armedAt = NULL
    /\ clicks = <<>>
    /\ reads = <<>>
    /\ retryStart = NULL
    /\ firstRejectAt = NULL
    /\ retryEnd = NULL
    /\ finalRead = NULL

Shot(res, name) == [res EXCEPT !.screenshots = Append(@, name)]

\* part_001 lines 91-104, main.js lines 650-671: navigation, first screenshot,
\* wait for the form; each of them can reject
BasicGoto ==
    /\ pc = "basic_goto"
    /\ \/ /\ UseFault(FALSE)
          /\ result' = Shot(result, "screenshot-initial")
          /\ pc' = "basic_field1"
       \/ /\ UseFault(TRUE)
          /\ \E shot \in BOOLEAN : result' = Caught(result, ErrPage, shot)
          /\ pc' = "push"
    /\ UNCHANGED <<instance, primaryRun, input, skew, startSkew, baseRtt, now,
                   clockWentBack, checkinOpensAtMs, localDriftMs, lastSyncTime,
                   lastDriftCheck, lastNTPSync, lastHeartbeat, heartbeat, rttSamples,
                   delayMs, retryCount, dataset, armedAt, clicks, reads, retryStart,
                   firstRejectAt, retryEnd, finalRead>>

BasicFieldAt ==
    CASE pc = "basic_field1" -> 1 [] pc = "basic_field2" -> 2 [] pc = "basic_field3" -> 3
      [] OTHER -> 0
BasicAfterField(v, k) ==
    CASE k = 1 -> "basic_field2" [] k = 2 -> "basic_field3"
      [] k = 3 -> IF v = "part_001" THEN "basic_retrieve" ELSE "basic_checkin"

\* part_001 lines 106-138, main.js lines 677-776: the three fields in turn;
\* a field that is not found throws, the last one filled is followed by the
\* form screenshot
BasicFill ==
    /\ BasicFieldAt # 0
    /\ \E found \in BOOLEAN :
         IF found
         THEN /\ result' = IF BasicFieldAt = 3
                           THEN Shot(result, "screenshot-form-filled") ELSE result
              /\ pc' = BasicAfterField(input.kind, BasicFieldAt)
         ELSE /\ \E shot \in BOOLEAN :
                   result' = Caught(result,
                                    ErrFieldMissing(input.kind, BasicFields[BasicFieldAt]),
                                    shot)
              /\ pc' = "push"
    /\ UNCHANGED <<instance, primaryRun, input, skew, startSkew, baseRtt, faults, now,
                   clockWentBack, checkinOpensAtMs, localDriftMs, lastSyncTime,
                   lastDriftCheck, lastNTPSync, lastHeartbeat, heartbeat, rttSamples,
                   delayMs, retryCount, dataset, armedAt, clicks, reads, retryStart,
                   firstRejectAt, retryEnd, finalRead>>

\* part_001 lines 140-167: the button that retrieves the reservation, the
\* two waits whose timeouts are swallowed, the screenshot of the second page
BasicRetrieve ==
    /\ pc = "basic_retrieve"
    /\ \E found \in BOOLEAN :
         IF found
         THEN /\ clicks' = Append(clicks, Click(now, "retrieve"))
              /\ result' = Shot(result, "screenshot-checkin-page")
              /\ pc' = "basic_checkin"
         ELSE /\ \E shot \in BOOLEAN :
                   result' = Caught(result, ErrRetrieveMissing, shot)
              /\ pc' = "push"
              /\ UNCHANGED clicks
    /\ UNCHANGED <<instance, primaryRun, input, skew, startSkew, baseRtt, faults, now,
                   clockWentBack, checkinOpensAtMs, localDriftMs, lastSyncTime,
                   lastDriftCheck, lastNTPSync, lastHeartbeat, heartbeat, rttSamples,
                   delayMs, retryCount, dataset, armedAt, reads, retryStart, firstRejectAt,
                   retryEnd, finalRead>>

\* part_001 lines 171-181 (the primary selectors, else the alternate ones),
\* main.js lines 789-802 (one list of selectors): is a button clicked
CheckInFound(v, primary, alternate) ==
    IF v = "part_001" THEN primary \/ alternate ELSE primary
\* variant: a missing button is passed over
CheckInThrows_Never(found) == FALSE
\* part_001 line 177, main.js lines 804-806
CheckInThrows(found) == ~found

BasicCheckIn ==
    /\ pc = "basic_checkin"
    /\ \E primary \in BOOLEAN, alternate \in BOOLEAN :
         LET found == CheckInFound(input.kind, primary, alternate) IN
         /\ clicks' = IF found THEN Append(clicks, Click(now, "checkin")) ELSE clicks
         /\ IF CheckInThrows(found)
            THEN /\ \E shot \in BOOLEAN :
                      result' = Caught(result, ErrCheckInMissing(input.kind), shot)
                 /\ pc' = "push"
            ELSE /\ result' = result
                 /\ pc' = "basic_extract"
    /\ UNCHANGED <<instance, primaryRun, input, skew, startSkew, baseRtt, faults, now,
                   clockWentBack, checkinOpensAtMs, localDriftMs, lastSyncTime,
                   lastDriftCheck, lastNTPSync, lastHeartbeat, heartbeat, rttSamples,
                   delayMs, retryCount, dataset, armedAt, reads, retryStart, firstRejectAt,
                   retryEnd, finalRead>>

\* part_001 lines 221-227: /boarding position.*?([A-C]\d{1,2})/i on the page
basicPageMatch(c) == IF c.label = "boarding position" THEN c.labelled ELSE <<>>
\* the text of an element found by a selector, matched with /([A-C])(\d{1,2})/
\* (part_001 lines 204-218, main.js lines 831-847): match[0] or nothing
SelectorMatches == {<<>>, A12, B3}
\* part_001 lines 196-227, main.js lines 823-873
basicExtract(v, sel, c) ==
    IF sel # <<>> THEN sel
    ELSE IF v = "part_001" THEN basicPageMatch(c) ELSE ExtractBoardingPosition(c)

\* part_001 lines 183-239, main.js lines 808-885: wait, screenshot of the
\* result, extraction, classification
BasicExtract ==
    /\ pc = "basic_extract"
    /\ \/ \E sel \in SelectorMatches, c \in PageContents :
            /\ UseFault(FALSE)
            /\ finalRead' = Num(c)
            /\ result' = basicClassify(Shot(result, "screenshot-result"),
                                       basicExtract(input.kind, sel, c))
            /\ pc' = "basic_html"
       \/ /\ UseFault(TRUE)          \* screenshot or page.content() rejects
          /\ \E shot \in BOOLEAN : result' = Caught(result, ErrPage, shot)
          /\ pc' = "push"
          /\ UNCHANGED finalRead
    /\ UNCHANGED <<instance, primaryRun, input, skew, startSkew, baseRtt, now,
                   clockWentBack, checkinOpensAtMs, localDriftMs, lastSyncTime,
                   lastDriftCheck, lastNTPSync, lastHeartbeat, heartbeat, rttSamples,
                   delayMs, retryCount, dataset, armedAt, clicks, reads, retryStart,
                   firstRejectAt, retryEnd>>

\* part_001 lines 241-243, main.js lines 890-892: the page is saved after the
\* classification, inside the same try block
BasicSaveHtml ==
    /\ pc = "basic_html"
    /\ \/ /\ UseFault(FALSE)
          /\ result' = result
       \/ /\ UseFault(TRUE)
          /\ \E shot \in BOOLEAN : result' = Caught(result, ErrPage, shot)
    /\ pc' = "push"
    /\ UNCHANGED <<instance, primaryRun, input, skew, startSkew, baseRtt, now,
                   clockWentBack, checkinOpensAtMs, localDriftMs, lastSyncTime,
                   lastDriftCheck, lastNTPSync, lastHeartbeat, heartbeat, rttSamples,
                   delayMs, retryCount, dataset, armedAt, clicks, reads, retryStart,
                   firstRejectAt, retryEnd, finalRead>>

NextBasic ==
    \/ BasicGoto
    \/ BasicFill
    \/ BasicRetrieve
    \/ BasicCheckIn
    \/ BasicExtract
    \/ BasicSaveHtml
    \/ Push
SpecBasic == InitBasic /\ [][NextBasic]_vars

\* ================================================================ properties
\* the wait loop was entered when InitialSync set the three timers; lastNTPSync is
\* never written again (line 298 is not reached, see NtpResync)
LoopEnteredAt == lastNTPSync
\* no slow, failed or missing round trip, exact sleeps, no clock step, zero latency
ZeroLatency == faults = 0 /\ baseRtt = 0
Finished == pc = "done"
PrimaryFinished == instance = "BACKUP" /\ IsNum(primaryRun)

\* C1: the initial click is dispatched only after an iteration of the wait loop has
\* observed corrected time >= checkinOpensAtMs + 100 + backupOffset; and while the
\* local clock has not been stepped backwards, every recorded timingOffset is
\* >= 100 + backupOffset.
C1_NeverBeforeTarget ==
    /\ clicks # <<>> =>
         /\ IsNum(armedAt) /\ IsNum(checkinOpensAtMs)
         /\ Val(armedAt) >= Val(checkinOpensAtMs) + 100 + backupOffset
    /\ (IsNum(result.timingOffset) /\ ~clockWentBack) =>
         Val(result.timingOffset) >= 100 + backupOffset

\* C1 witness: a finished run that clicked exactly at the target instant plus margin
C1_Witness ==
    /\ Finished /\ clicks # <<>> /\ ~clockWentBack
    /\ IsNum(result.timingOffset)
    /\ Val(result.timingOffset) = 100 + backupOffset

\* C2: with zero latency, exact sleeps, a correct clock and the wait loop entered
\* before the target submit time, actualSubmitTime lies within
\* [checkinOpensAtMs + 100 + backupOffset, checkinOpensAtMs + 100 + backupOffset + 100].
C2_FireWindow ==
    (/\ ZeroLatency
     /\ IsNum(result.actualSubmitTime)
     /\ LoopEnteredAt + localDriftMs < Val(checkinOpensAtMs) + 100 + backupOffset)
    => /\ Val(result.actualSubmitTime) >= Val(checkinOpensAtMs) + 100 + backupOffset
       /\ Val(result.actualSubmitTime) <= Val(checkinOpensAtMs) + 100 + backupOffset + 100

\* C2 witness: such a run whose last poll overshot the target
C2_Witness ==
    /\ ZeroLatency /\ Finished /\ IsNum(result.actualSubmitTime)
    /\ LoopEnteredAt + localDriftMs < Val(checkinOpensAtMs) + 100 + backupOffset
    /\ Val(result.actualSubmitTime) > Val(checkinOpensAtMs) + 100 + backupOffset

\* a primary run started 2000 ms before checkinOpensAt, no request failing or slow
C3_Scenario ==
    /\ Finished /\ instance = "PRIMARY"
    /\ input.kind = "ok" /\ input.lead = 2000
    /\ faults = 0

\* C3 (as claimed): such a run ends with 0 <= timingOffset <= 150 and success = true.
C3_Original ==
    C3_Scenario =>
        /\ IsNum(result.timingOffset)
        /\ Val(result.timingOffset) >= 0 /\ Val(result.timingOffset) <= 150
        /\ result.success

\* C3 (amended): the 5000 ms of fixed form-filling waits end after the target, the
\* wait loop exits on its first poll, and the click is late: timingOffset >= 3000,
\* exactly 3000 with zero latency; success = true unless the final page still shows
\* the rejection signal.
C3_LateWhenLeadTooShort ==
    C3_Scenario =>
        /\ IsNum(result.timingOffset)
        /\ Val(result.timingOffset) >= 5000 - 2000
        /\ (baseRtt = 0 => Val(result.timingOffset) = 5000 - 2000)
        /\ Val(armedAt) = LoopEnteredAt + localDriftMs
        /\ (~Val(finalRead).rejected => result.success)

C3_Witness ==
    /\ C3_Scenario /\ baseRtt = 0 /\ result.success
    /\ Val(result.timingOffset) = 3000

\* both runs of a pair recorded a timingOffset and nothing deviated in either
C4_Scenario ==
    /\ PrimaryFinished /\ Finished
    /\ faults = 0
    /\ IsNum(Val(primaryRun).timingOffset) /\ IsNum(result.timingOffset)

C5_BackupNeverFirst ==
    (/\ PrimaryFinished /\ IsNum(Val(primaryRun).clickAt) /\ clicks # <<>>)
    => clicks[1].trueAt >= Val(Val(primaryRun).clickAt)

RetryClicks == Len(SelectSeq(clicks, LAMBDA c : c.kind = "retry"))
AllRejected == reads # <<>> /\ \A i \in 1..Len(reads) : reads[i]
LoopLeft == IsNum(retryEnd)
LastPushed == dataset[Len(dataset)]

\* C6 (as claimed): counting the initial click and every retry click, a run performs
\* at most maxRetries (5) dispatch attempts.
C6_Original == Len(clicks) <= 5

\* C6 (amended): a run performs at most maxRetries (5) retry clicks, hence at most
\* 6 dispatch attempts counting the initial click, and retryCount never exceeds 5.
C6_AtMostMaxRetriesRetryClicks ==
    /\ RetryClicks <= 5
    /\ Len(clicks) <= 5 + 1
    /\ retryCount <= 5
    /\ RetryClicks <= retryCount

C6_Witness == Finished /\ Len(clicks) = 6 /\ RetryClicks = 5

\* C7 (as claimed): the retry loop is left within maxRetries * intervalMs = 5 * 150 ms
\* of the first observed rejection.
C7_Original ==
    (IsNum(firstRejectAt) /\ LoopLeft) => Val(retryEnd) - Val(firstRejectAt) <= 5 * 150

\* C7 (amended): after the first observed rejection the loop makes at most 4 further
\* content reads, and its own waits (100 ms after each retry click, 150 ms before each
\* read) add up to at most 100 + 4 * (150 + 100) = 1100 ms before it is left.
C7_LoopLeftWithinBound ==
    /\ Len(reads) <= 5
    /\ (IsNum(firstRejectAt) /\ LoopLeft) =>
          /\ Val(retryEnd) - Val(firstRejectAt) <= 100 + 4 * (150 + 100)
          /\ Val(firstRejectAt) = Val(retryStart) + 150
    /\ (IsNum(firstRejectAt) /\ ~LoopLeft /\ pc = "retry") =>
          now - Val(firstRejectAt) < 100 + 4 * (150 + 100)

C7_Witness ==
    /\ IsNum(firstRejectAt) /\ LoopLeft
    /\ Val(retryEnd) - Val(firstRejectAt) = 1100

\* C8: rejection after the initial click and after the first retry click, none after
\* the second retry click: the run ends with telemetry.retryCount = 2 and success.
C8_TwoRetriesThenSuccess ==
    (/\ Finished
     /\ reads = <<TRUE, TRUE, FALSE>>
     /\ IsNum(finalRead) /\ ~Val(finalRead).rejected)
    => /\ result.telemetry.retryCount = Num(2)
       /\ result.success
       /\ LastPushed.success /\ LastPushed.telemetry.retryCount = Num(2)

C8_Witness ==
    /\ Finished /\ reads = <<TRUE, TRUE, FALSE>> /\ Len(clicks) = 3
    /\ IsNum(finalRead) /\ ~Val(finalRead).rejected
    /\ result.success

\* every content read of the run, the final one included, showed the rejection signal
C9_Scenario == Finished /\ AllRejected /\ IsNum(finalRead) /\ Val(finalRead).rejected

\* C9 (as claimed): then success = false, error = "check-in not yet open" and
\* telemetry.retryCount = 5.
C9_Original ==
    C9_Scenario =>
        /\ ~result.success
        /\ result.error = "check-in not yet open"
        /\ result.telemetry.retryCount = Num(5)

\* C9 (amended): then telemetry.retryCount = 5; and if the final page holds no
\* boarding-position text, success = false and
\* error = "Check-in not yet open (too early)".
C9_AllRejected ==
    C9_Scenario =>
        /\ result.telemetry.retryCount = Num(5)
        /\ (Val(finalRead).label = "none" /\ Val(finalRead).others = <<>>) =>
              /\ ~result.success
              /\ result.error = "Check-in not yet open (too early)"
              /\ result.boardingPosition = NULL

C9_Witness ==
    /\ C9_Scenario /\ Len(reads) = 5
    /\ ~result.success /\ result.error = "Check-in not yet open (too early)"

\* the retry loop was left because retryCount reached maxRetries
C10_Exhausted == Finished /\ LoopLeft /\ AllRejected /\ Len(reads) = 5

\* C10 (as claimed): then success = false and the retry count 5 is in the result.
C10_Original ==
    C10_Exhausted =>
        /\ ~LastPushed.success
        /\ LastPushed.telemetry.retryCount = Num(5)

\* C10 (amended): then the retry count 5 is in the pushed result, and success is
\* decided by the final page alone: false when the handler threw or the final page
\* shows the rejection signal and yields no boarding position, true otherwise.
C10_ExhaustedResult ==
    C10_Exhausted =>
        /\ LastPushed = result
        /\ LastPushed.telemetry.retryCount = Num(5)
        /\ LastPushed.success =
              (/\ IsNum(finalRead)
               /\ \/ ~Val(finalRead).rejected
                  \/ ExtractBoardingPosition(Val(finalRead)) # <<>>)

C10_Witness == C10_Exhausted /\ LastPushed.success /\ ~Val(finalRead).rejected

\* the in-browser lookup of the submit button found nothing (line 410-412): the submit
\* time was recorded although no initial click was made
ButtonMissing == IsNum(retryStart) /\ (clicks = <<>> \/ clicks[1].kind # "initial")

\* C11: if the submit button cannot be located when the click is to be dispatched,
\* the run is fatally failed: the final result has success = false and a non-null
\* error.
C11_MissingButtonFails ==
    (Finished /\ ButtonMissing) => (~LastPushed.success /\ LastPushed.error # "null")

\* the calibration ended with fewer than three samples, at least one of them obtained
CalibrationShort == IsNum(armedAt) /\ Len(rttSamples) \in 1..2

\* C12: after the target submit time has been reached, a failed round trip among the
\* three calibration samples does not abort the run: provided at least one sample
\* succeeded, a median is recorded and the click is still dispatched.
C12_FailedSampleDiscarded ==
    (Finished /\ CalibrationShort) =>
        (clicks # <<>> /\ IsNum(result.telemetry.calibratedRTT))

\* C13: in a wait longer than ten minutes in which no request fails, the wait loop
\* re-syncs NTP after 600000 ms and goes on waiting until the click is dispatched.
C13_ResyncThenClick ==
    (Finished /\ input.kind = "ok" /\ input.lead > NtpResyncMs /\ faults = 0)
    => (clicks # <<>> /\ result.error # ErrConst)

Abs(x) == IF x < 0 THEN -x ELSE x
LastDriftRecord(res) == res.telemetry.driftChecks[Len(res.telemetry.driftChecks)]
\* this step is a drift check whose probe was answered and whose drift exceeds 100 ms
SignificantDriftStep ==
    /\ Len(result'.telemetry.driftChecks) = Len(result.telemetry.driftChecks) + 1
    /\ IsNum(LastDriftRecord(result').rtt)
    /\ Abs(LastDriftRecord(result').drift2) > 2 * 100

\* C14: a drift re-probe whose sample disagrees with the running estimate by more than
\* 100 ms is adopted at once: the offset used by the next msUntilSubmit (localDriftMs)
\* is no longer the one in use before the check.
C14_DriftSampleAdopted == [][SignificantDriftStep => localDriftMs' # localDriftMs]_vars
\* an NTP query failed after an earlier one had succeeded: the success left the
\* reported offset, the failure cleared the flag
NtpFailedAfterSuccess ==
    ~result.telemetry.ntpSyncSucceeded /\ IsNum(result.telemetry.localDriftMs)

C16_MethodNamesWorkingSources ==
    (/\ result.telemetry.syncMethod # "null"
     /\ ~result.telemetry.ntpSyncSucceeded
     /\ result.telemetry.localDriftMs = NULL)
    => result.telemetry.syncMethod \notin {"southwest+ntp", "ntp-only"}

\* the sample of a probe that failed or timed out: local time plus offset, no rtt
FallbackSample ==
    /\ lastSyncTime.rtt = NULL
    /\ lastSyncTime.time2 = 2 * (lastDriftCheck + localDriftMs)

C18_NoRequestBlocks == pc # "hung"

\* the fields written by getNTPTime and getSouthwestTimeWithRTT and by their callers
SyncState ==
    <<lastSyncTime, lastDriftCheck, lastNTPSync, result.telemetry.ntpSyncSucceeded,
      result.telemetry.localDriftMs, result.telemetry.southwestRTT,
      result.telemetry.syncMethod, result.telemetry.driftChecks>>

\* C19: once the wait loop has been left, localDriftMs and the target submit time do
\* not change and nothing a time-sync function writes changes for the rest of the run.
C19_FrozenAfterArming ==
    [][(IsNum(armedAt) /\ instance' = instance) =>
          /\ localDriftMs' = localDriftMs
          /\ targetSubmitTime' = targetSubmitTime
          /\ armedAt' = armedAt
          /\ SyncState' = SyncState]_vars

\* C19 witness: a finished run that made drift checks while waiting, then calibrated
\* (with a round-trip time other than the last probe's) and clicked
C19_Witness ==
    /\ Finished /\ IsNum(armedAt) /\ clicks # <<>>
    /\ result.telemetry.driftChecks # <<>>
    /\ result.telemetry.southwestRTT # result.telemetry.calibratedRTT

\* C20: if the click was dispatched and the final page shows no rejection signal, the
\* run is a success; if moreover no boarding position was extracted, boardingPosition
\* is 'UNKNOWN' and the error is the parse message.  The basic script classifies an
\* unparsed page the same way.
C20_UnparsedIsSoftSuccess ==
    /\ (Finished /\ clicks # <<>> /\ IsNum(finalRead) /\ ~Val(finalRead).rejected) =>
          /\ LastPushed.success
          /\ ExtractBoardingPosition(Val(finalRead)) = <<>> =>
                (LastPushed.boardingPosition = UNKNOWN /\ LastPushed.error = ErrParse)
    /\ LET r == basicClassify(result, NULL)
       IN r.success /\ r.boardingPosition = UNKNOWN /\ r.error = ErrParse

\* C20 witness: a finished run that clicked and whose final page held neither a
\* position nor the rejection signal
C20_Witness ==
    /\ Finished /\ clicks # <<>> /\ clicks[1].kind = "initial" /\ IsNum(finalRead)
    /\ Val(finalRead) = Page(FALSE, "none", <<>>, <<>>, <<>>)
    /\ LastPushed.boardingPosition = UNKNOWN
\* exactly one of the three samples is ten times the value v of the other two
OneOutlier(samples, v) ==
    /\ v > 0
    /\ \E i \in 1..3 :
         /\ samples[i] = 10 * v
         /\ \A j \in (1..3) \ {i} : samples[j] = v

\* C21: the median recorded for three answered calibration samples is one of the
\* samples, and with exactly one sample ten times the other two it is the value of
\* the other two.
C21_MedianIsRawSample ==
    pc = "median_done" =>
        LET medianRTT == Val(result.telemetry.calibratedRTT) IN
        /\ medianRTT \in {rttSamples[i] : i \in 1..3}
        /\ \A v \in RttValues : OneOutlier(rttSamples, v) => medianRTT = v

\* C21 witness: samples 20, 200, 20 in some order gave median 20
C21_Witness ==
    /\ pc = "median_done" /\ OneOutlier(rttSamples, 20)
    /\ result.telemetry.calibratedRTT = Num(20)

\* there is no input, or one of the four required fields is missing or empty
InputInvalid == input.kind = "absent" \/ input.fields # RequiredFields

\* C22: with an absent input or a missing or empty required field, the script goes
\* from its start straight to the fatal exit (the error is rethrown): no browser
\* session was started, no click made, and exactly one record
\* {success: false, error, timestamp} was pushed.
C22_InvalidInputFailsEarly ==
    (InputInvalid /\ pc # "start") =>
        /\ pc = "fatal"
        /\ clicks = <<>> /\ result = InitResult /\ now = 0
        /\ Len(dataset) = 1
        /\ DOMAIN dataset[1] = {"success", "error", "timestamp"}
        /\ ~dataset[1].success /\ dataset[1].error # "null"

\* C22 witness: the fatal exit of a run whose input lacks checkinOpensAt only
C22_Witness ==
    /\ pc = "fatal" /\ input.fields = RequiredFields \ {"checkinOpensAt"}
    /\ dataset # <<>> /\ dataset[1].error = ErrMissing
driftChecks == result.telemetry.driftChecks

\* C23: within a run telemetry.driftChecks only grows, by one record appended per
\* drift re-probe and by nothing else; the records already there are unchanged, and
\* the timestamps are strictly increasing in sequence order.
C23_DriftChecksAppendOnly ==
    [][instance' = instance =>
         /\ Len(driftChecks') \in {Len(driftChecks), Len(driftChecks) + 1}
         /\ SubSeq(driftChecks', 1, Len(driftChecks)) = driftChecks
         /\ (Len(driftChecks') = Len(driftChecks) + 1)
              <=> (pc # "sync" /\ lastSyncTime' # lastSyncTime)
         /\ \A i \in 1..(Len(driftChecks') - 1) :
              driftChecks'[i].timestamp < driftChecks'[i + 1].timestamp]_vars

\* C23 witness: a wait loop that has made three drift re-probes
C23_Witness == pc = "loop" /\ Len(driftChecks) = 3

\* C24: an iteration that has not reached the target sleeps 5000 ms when
\* msUntilSubmit > 60000, 1000 ms when 5000 < msUntilSubmit <= 60000 and 100 ms when
\* 0 < msUntilSubmit <= 5000 (the timer may fire SleepJitter late).
C24_PollSleep ==
    [][(AtPoll /\ pc' = "loop" /\ skew' = skew /\ IsNum(msUntilSubmit)) =>
          LET ms == Val(checkinOpensAtMs) + 100 + backupOffset - (now + localDriftMs)
              sleep == IF ms > 60000 THEN 5000 ELSE IF ms > 5000 THEN 1000 ELSE 100
          IN /\ ms > 0
             /\ now' - now \in {sleep, sleep + SleepJitter}
             /\ faults' = faults => now' - now = sleep]_vars

\* C24 witness: a wait that started more than 60 s ahead and has come within 5 s
C24_Witness ==
    /\ pc = "loop" /\ input.lead > NearWindowMs /\ IsNum(msUntilSubmit)
    /\ Val(msUntilSubmit) > 0 /\ Val(msUntilSubmit) <= CriticalWindowMs

\* the phase of the scheduler as a rank: 0 idle, 1 far, 2 near, 3 critical, 4 armed,
\* 5 fired / retrying, 6 verifying, 7 done
Waiting == pc \in {"loop", "loop_drift", "loop_ntp"}
Phase ==
    IF pc \in {"start", "ntp", "phase1", "prewarm", "sync"} THEN 0
    ELSE IF Waiting
         THEN IF IsNum(msUntilSubmit) /\ Val(msUntilSubmit) <= 5000 THEN 3
              ELSE IF IsNum(msUntilSubmit) /\ Val(msUntilSubmit) <= 60000 THEN 2
              ELSE 1
    ELSE IF pc \in {"calibrate", "schedule", "evaluate"} THEN 4
    ELSE IF pc = "retry" THEN 5
    ELSE IF pc = "verify" THEN 6
    ELSE 7

\* C25: while the local clock has not been stepped backwards, no step of a run moves
\* the scheduler to an earlier phase, and the remaining time does not increase from
\* one point of the wait to the next.
C25_PhasesOnlyForward ==
    [][(instance' = instance /\ ~clockWentBack') =>
          /\ Phase' >= Phase
          /\ (Waiting /\ Waiting' /\ IsNum(msUntilSubmit)) =>
                Val(msUntilSubmit') <= Val(msUntilSubmit)]_vars

\* C25 witness: a finished run that waited through the far, near and critical phases,
\* clicked, retried once and verified
C25_Witness ==
    /\ Finished /\ ~clockWentBack /\ input.lead > NearWindowMs
    /\ clicks # <<>> /\ reads = <<TRUE, FALSE>> /\ IsNum(finalRead)

\* C26: a content read of the retry loop that shows no rejection signal is the last
\* one: the loop has ended with it and every click of the run was made before it.
C26_AcceptedReadEndsLoop ==
    \A i \in 1..Len(reads) :
        ~reads[i] =>
            /\ i = Len(reads) /\ pc # "retry" /\ IsNum(retryEnd)
            /\ \A k \in 1..Len(clicks) : clicks[k].at < Val(retryEnd)
            /\ RetryClicks <= Len(reads) - 1

\* C26 witness: one rejected read with its retry click, then an accepted read
C26_Witness ==
    /\ pc = "verify" /\ reads = <<TRUE, FALSE>> /\ RetryClicks = 1
\* the step that computes the delay handed to the in-browser scheduler (lines 373-382)
SchedulingStep == pc = "schedule" /\ pc' = "evaluate"

\* C27: the delay handed to the in-browser scheduler depends on the calibrated
\* round-trip time: when the compensation floor(medianRTT / 2) is positive and the
\* remaining time is at least that large, the delay is not the uncompensated
\* remaining time.
C27_DelayUsesCalibration ==
    [][SchedulingStep =>
          LET compensation == adaptiveOffset(Val(result.telemetry.calibratedRTT))
              remaining == Val(targetSubmitTime) - (now + localDriftMs)
          IN (compensation > 0 /\ remaining >= compensation)
                => Val(delayMs') # remaining]_vars

IterationEnds == AtPoll /\ pc' \in {"loop", "calibrate"} /\ skew' = skew

\* C29: an iteration of the wait loop makes a drift re-probe exactly when at least
\* 15000 ms of local time have passed since the previous probe completed; successive
\* probes are at least 15 s apart and, with zero latency and exact sleeps, less than
\* 15 s plus one 5 s poll interval.
C29_DriftCheckEvery15s ==
    [][/\ Len(driftChecks') = Len(driftChecks) + 1 => now - lastDriftCheck >= 15000
       /\ IterationEnds => now - lastDriftCheck < 15000
       /\ instance' = instance =>
            \A i \in 1..Len(driftChecks') :
                LET previous == IF i = 1 THEN LoopEnteredAt'
                                ELSE driftChecks'[i - 1].timestamp
                    gap == driftChecks'[i].timestamp - previous
                IN gap >= 15000 /\ (ZeroLatency' => gap < 15000 + 5000)
       /\ (Waiting' /\ ZeroLatency') => now' - lastDriftCheck' < 15000 + 5000]_vars

\* C29 witness: zero latency, two successive re-probes exactly 15 s apart
C29_Witness ==
    /\ Waiting /\ ZeroLatency /\ Len(driftChecks) >= 2
    /\ driftChecks[2].timestamp - driftChecks[1].timestamp = DriftCheckMs

\* C30: while the offset between the local clock and the reference has not changed,
\* every recorded drift is 0.
C30_DriftZeroWhenOffsetUnchanged ==
    (skew = startSkew /\ ~clockWentBack) =>
        \A i \in 1..Len(driftChecks) : driftChecks[i].drift2 = 0

\* ---------------------------------------------------------------------------
\* The handler's catch block (lines 519-531) and the push after the crawl
\* (lines 537-540)

\* messages of the exceptions the handler can raise in phases 1-5
ExceptionMessages == {ErrConst, ErrPage, ErrFetch}

\* the handler ended without reaching the classification of line 492: the
\* only way to do so is through the catch block
ErrorPath == pc \in {"push", "done"} /\ finalRead = NULL

\* C31: an exception thrown inside the handler is caught there: the error
\* field holds the exception's message, success is still false, no boarding
\* position is recorded, the error screenshot is either appended or its
\* failure left no trace, and the record that is pushed is this result
C31_ExceptionCaughtAndPushed ==
    ErrorPath =>
        /\ result.error \in ExceptionMessages
        /\ ~result.success
        /\ result.boardingPosition = NULL
        /\ \A i \in 1..Len(result.screenshots) :
               result.screenshots[i] = "screenshot-error" => i = Len(result.screenshots)
        /\ pc = "done" => LastPushed = result

\* a run whose retry loop or verification threw after the click was
\* dispatched, whose error screenshot failed too, and whose record was pushed
C31_Witness ==
    /\ pc = "done" /\ finalRead = NULL
    /\ clicks # <<>>
    /\ result.error = ErrPage
    /\ \A i \in 1..Len(result.screenshots) : result.screenshots[i] # "screenshot-error"
    /\ LastPushed = result


\* ---------------------------------------------------------------------------
\* The heartbeat record (lines 257-270) against the scheduler's own
\* remaining time (lines 302-307)

\* a step that writes a heartbeat record
HeartbeatWritten == IsNum(heartbeat') /\ heartbeat' # heartbeat

\* a step that runs the heartbeat test of an iteration (line 259)
HeartbeatTested == AtHeartbeat /\ pc' # pc

\* C32: a heartbeat record is written in an iteration exactly when at least
\* 120000 ms have passed since the previous one (or since the loop started),
\* its msRemaining is the scheduler's msUntilSubmit at that moment and its
\* driftMs is the current localDriftMs
C32_HeartbeatMatchesScheduler ==
    [][/\ HeartbeatTested => (HeartbeatWritten <=> now - lastHeartbeat >= HeartbeatMs)
       /\ HeartbeatWritten =>
             /\ Val(heartbeat').msRemaining = msUntilSubmit'
             /\ Val(heartbeat').driftMs = localDriftMs']_vars


\* ---------------------------------------------------------------------------
\* The basic scripts: a missing element ends the run

CheckInClicks == Len(SelectSeq(clicks, LAMBDA c : c.kind = "checkin"))
\* the screenshots of the steps that ran, without the one of the catch block
Progress == SelectSeq(result.screenshots, LAMBDA n : n # "screenshot-error")
FieldMessages == {ErrFieldMissing(input.kind, BasicFields[k]) : k \in 1..3}

\* C33: in the basic scripts a field or button that cannot be found ends the
\* run where it is: the error names the element, success is false, no step
\* after it has run (no later screenshot, no check-in click), and success is
\* true only after the check-in click
C33_MissingElementStopsRun ==
    /\ result.error \in FieldMessages =>
         /\ ~result.success /\ pc \in {"push", "done"}
         /\ Progress = <<"screenshot-initial">> /\ clicks = <<>> /\ finalRead = NULL
    /\ result.error = ErrRetrieveMissing =>
         /\ ~result.success /\ pc \in {"push", "done"}
         /\ Progress = <<"screenshot-initial", "screenshot-form-filled">>
         /\ clicks = <<>> /\ finalRead = NULL
    /\ result.error = ErrCheckInMissing(input.kind) =>
         /\ ~result.success /\ pc \in {"push", "done"}
         /\ Progress[Len(Progress)] \in {"screenshot-form-filled", "screenshot-checkin-page"}
         /\ CheckInClicks = 0 /\ finalRead = NULL
    /\ (pc \in {"push", "done"} /\ CheckInClicks = 0) =>
         ~result.success /\ result.error # "null"
    /\ result.success => CheckInClicks = 1

\* the two-page script found the form and the first button but no final
\* check-in button, and pushed its record
C33_Witness ==
    /\ pc = "done" /\ input.kind = "part_001"
    /\ result.error = ErrCheckInMissing("part_001")
    /\ Len(clicks) = 1 /\ clicks[1].kind = "retrieve"
    /\ LastPushed = result /\ ~result.success


\* ---------------------------------------------------------------------------
\* Termination of the wait loop and of the run (lines 32-38, 256-330; the
\* crawler's own limit for the handler is requestHandlerTimeoutSecs, line 151)

C35_ReportedPositionHasShape ==
    result.success =>
        result.boardingPosition = UNKNOWN \/ ShapeOK(result.boardingPosition)


\* ---------------------------------------------------------------------------
\* success against the dispatch phase and the error path (lines 53-70,
\* 417-419, 492-531)

\* C36: success = true implies that the dispatch phase was reached (both
\* actualSubmitTime and timingOffset are recorded) and that the handler ended
\* through its classification, not through its catch block; on the error path
\* success is false
C36_SuccessImpliesDispatch ==
    /\ result.success =>
         /\ IsNum(result.actualSubmitTime) /\ IsNum(result.timingOffset)
         /\ IsNum(armedAt) /\ IsNum(finalRead)
         /\ result.error \notin ExceptionMessages
    /\ ErrorPath => ~result.success

\* a finished run that dispatched its click, read a page it could not parse
\* and reported the soft success, whose error field is set although the
\* handler did not take its error path
C36_Witness ==
    /\ pc = "done" /\ result.success /\ result.boardingPosition = UNKNOWN
    /\ result.error = ErrParse
    /\ IsNum(result.actualSubmitTime) /\ IsNum(result.timingOffset)


\* ---------------------------------------------------------------------------
\* telemetry.retryCount (lines 428-453)

RejectedReads == Len(SelectSeq(reads, LAMBDA r : r))

\* C37: telemetry.retryCount, once set, is an integer from 0 to 5 that equals
\* the number of reads of the retry loop that showed the rejection signal and
\* the number of retry clicks issued; the counter never decreases during the
\* loop
C37_RetryCountCountsRetries ==
    [][/\ IsNum(result'.telemetry.retryCount) =>
             /\ Val(result'.telemetry.retryCount) \in 0..maxRetries
             /\ Val(result'.telemetry.retryCount) = RejectedReads'
             /\ Val(result'.telemetry.retryCount) = RetryClicks'
       /\ (pc = "retry" /\ pc' \in {"retry", "verify"}) => retryCount' >= retryCount]_vars

====
